---- MODULE Spec2Model ----
(***************************************************************************)
(* AzureAiRemoteRecognizer (presidio_analyzer/azure_ai_remote_recognizer.py) *)
(* One recognizer object driven by a sequential caller: load(),             *)
(* get_supported_entities() and analyze().  analyze() posts one request     *)
(* and maps the mentions of the response to RecognizerResults with          *)
(* map_recognizer_results_from_response / find_first_word_positions.        *)
(* Texts are sequences of one-character strings; offsets are 0-based as in  *)
(* Python, scores are in hundredths.                                        *)
(***************************************************************************)
EXTENDS Integers, Sequences, FiniteSets, TLC

\* ---------------------------------------------------------------- bounds
MaxTextLen == 3
MaxMentions == 2
MaxLoads == 2
MaxWordLen == MaxTextLen - 1
\* find_first_word_positions only ever reads positions[0]; entries past
\* this length are not recorded, so an endless scan is a finite cycle.
MaxPositions == MaxTextLen + 1

Alphabet == {"A", "B"}

\* ------------------------------------------------------- program constants
\* load(): the fixed list of entity types
LoadedEntityList ==
    << "PERSON", "LOCATION", "EMAIL_ADDRESS", "IBAN_CODE", "POLICY_NUMBER",
       "CREDIT_CARD", "PHONE_NUMBER", "IT_FISCAL_CODE", "IT_IDENTITY_CARD",
       "IT_PASSPORT", "IT_DRIVER_LICENSE" >>

\* analysis_explanation argument of RecognizerResult: always None
None == "None"

\* ------------------------------------------------------------ inputs
SeqsUpTo(S, n) == UNION { [1..k -> S] : k \in 0..n }

Texts == SeqsUpTo(Alphabet, MaxTextLen)
Words == SeqsUpTo(Alphabet, MaxWordLen)

\* type, score and metadata of a mention as returned by the remote model
PersonKind ==
    [entity_type |-> "PERSON", score |-> 90,
     recognition_metadata |-> [recognizer_name |-> "ResposaRecognizer"]]
EmailKind ==
    [entity_type |-> "EMAIL_ADDRESS", score |-> 95,
     recognition_metadata |-> [recognizer_name |-> "Other"]]

Mention(k, w) ==
    [entity_type |-> k.entity_type, entity |-> w, score |-> k.score,
     recognition_metadata |-> k.recognition_metadata]

\* the mentions of a response alternate between the two kinds, so that
\* neighbouring mentions never carry the same type, score and metadata
KindAt(i) == IF i % 2 = 1 THEN PersonKind ELSE EmailKind
MentionList(ws) == [i \in 1..Len(ws) |-> Mention(KindAt(i), ws[i])]
MentionLists == { MentionList(ws) : ws \in SeqsUpTo(Words, MaxMentions) }

\* the two scenarios of the specification
ContactText ==
    << "C", "o", "n", "t", "a", "c", "t", " ", "J", "o", "h", "n", " ", "S",
       "m", "i", "t", "h", " ", "a", "t", " ", "j", "o", "h", "n", "@", "x",
       ".", "c", "o", "m" >>
JohnSmith == << "J", "o", "h", "n", " ", "S", "m", "i", "t", "h" >>
JohnMail == << "j", "o", "h", "n", "@", "x", ".", "c", "o", "m" >>
ContactMentions == MentionList(<< JohnSmith, JohnMail >>)

DupText == << "A", ".", "B", ".", "A" >>
DupMentions == MentionList(<< <<"A">>, <<"A">> >>)

\* (text, mentions of the response) pairs an analyze() call is run on
Inputs ==
    { <<t, ms>> : t \in Texts, ms \in MentionLists }
    \cup { <<ContactText, ContactMentions>>, <<DupText, DupMentions>> }

\* ------------------------------------------------------- Python helpers
SetMin(S) == CHOOSE x \in S : \A y \in S : x <= y

\* s[a:b] for 0 <= a, clamped to the length as Python slices are
Slice(s, a, b) == SubSeq(s, a + 1, IF b > Len(s) THEN Len(s) ELSE b)

\* s[a:]
SliceFrom(s, a) == SubSeq(s, a + 1, Len(s))

\* str.find(word, start): lowest index >= start where word occurs, else -1
PyFind(text, word, start) ==
    LET hits == { i \in start..Len(text) :
                    /\ i + Len(word) <= Len(text)
                    /\ SubSeq(text, i + 1, i + Len(word)) = word }
    IN IF hits = {} THEN -1 ELSE SetMin(hits)

\* end = start + len(word)
SpanEndShort(start, word) == start + Len(word) - 1
SpanEnd(start, word) == start + Len(word)

\* return positions[0]
LastPosition(positions) == positions[Len(positions)]
FirstPosition(positions) == positions[1]

\* the text handed to find_first_word_positions by the mapper
SearchedRemainder(txt, cur) == cur
SearchedText(txt, cur) == txt

\* RecognizerResult(entity_type, start, end, score, None, recognition_metadata)
RecognizerResult(result, position) ==
    [entity_type |-> result.entity_type, start |-> position[1],
     end |-> position[2], score |-> result.score,
     analysis_explanation |-> None,
     recognition_metadata |-> result.recognition_metadata]

\* recognizer_results.append(...)
PrependResult(results, r) == <<r>> \o results
AppendResult(results, r) == Append(results, r)

\* self.supported_entities = [...]
ExtendEntities(cur) == cur \o LoadedEntityList
LoadEntities(cur) == LoadedEntityList

\* ------------------------------------------------------------- state
VARIABLES
    supported_entities,  \* self.supported_entities
    loads,               \* number of load() calls so far (history)
    pc,                  \* where the caller / the running analyze() is
    text,                \* analyze(): text
    post_outcome,        \* outcome of requests.post + raise_for_status
    posts,               \* requests sent by the running analyze()
    mentions,            \* results.get("result")
    idx,                 \* mentions already consumed by the for loop
    current_text,        \* map: current_text
    recognizer_results,  \* map: recognizer_results
    searched,            \* find: text
    word,                \* find: word
    start,               \* find: start
    positions,           \* find: positions
    tick,                \* find: parity of the while iterations run (history)
    raised,              \* exception leaving analyze(), or "none"
    ret,                 \* value returned by the last completed call
    alive                \* the host process is running

locals == << text, post_outcome, posts, mentions, idx, current_text,
             recognizer_results, searched, word, start, positions, tick >>
vars == << supported_entities, loads, pc, text, post_outcome, posts, mentions,
           idx, current_text, recognizer_results, searched, word, start,
           positions, tick, raised, ret, alive >>

NoRet == [kind |-> "none", val |-> <<>>]

NoCall ==
    /\ text = <<>>
    /\ post_outcome = "none"
    /\ posts = 0
    /\ mentions = <<>>
    /\ idx = 0
    /\ current_text = <<>>
    /\ recognizer_results = <<>>
    /\ searched = <<>>
    /\ word = <<>>
    /\ start = 0
    /\ positions = <<>>
    /\ tick = 0

\* __init__: supported_entities=[]
Init ==
    /\ supported_entities = <<>>
    /\ loads = 0
    /\ pc = "idle"
    /\ NoCall
    /\ raised = "none"
    /\ ret = NoRet
    /\ alive = TRUE

\* ------------------------------------------------------------ actions
\* load()
Load ==
    /\ pc = "idle"
    /\ loads < MaxLoads
    /\ supported_entities' = LoadEntities(supported_entities)
    /\ loads' = loads + 1
    /\ ret' = NoRet
    /\ UNCHANGED << pc, locals, raised, alive >>

\* get_supported_entities()
GetSupportedEntities ==
    /\ pc = "idle"
    /\ ret' = [kind |-> "entities", val |-> supported_entities]
    /\ UNCHANGED << supported_entities, loads, pc, locals, raised, alive >>

\* analyze(): the request succeeds; the response carries a mention list and
\* map_recognizer_results_from_response starts
AnalyzeOk ==
    /\ pc = "idle"
    /\ \E in \in Inputs :
        /\ text' = in[1]
        /\ mentions' = in[2]
        /\ current_text' = in[1]
    /\ post_outcome' = "ok"
    /\ posts' = 1
    /\ recognizer_results' = <<>>
    /\ idx' = 0
    /\ pc' = "map"
    /\ ret' = NoRet
    /\ UNCHANGED << supported_entities, loads, searched, word, start,
                    positions, tick, raised, alive >>

\* analyze(): requests.post or raise_for_status raises a RequestException;
\* the handler raises SystemExit
AnalyzeFail ==
    /\ pc = "idle"
    /\ \E t \in Texts : text' = t
    /\ \E o \in {"ConnectionError", "HTTPError"} : post_outcome' = o
    /\ posts' = 1
    /\ raised' = "SystemExit"
    /\ pc' = "raised"
    /\ ret' = NoRet
    /\ UNCHANGED << supported_entities, loads, mentions, idx, current_text,
                    recognizer_results, searched, word, start, positions,
                    tick, alive >>

\* for result in results.get("result"): call find_first_word_positions
MapIter ==
    /\ pc = "map"
    /\ idx < Len(mentions)
    /\ searched' = SearchedText(text, current_text)
    /\ word' = mentions[idx + 1].entity
    /\ start' = 0
    /\ positions' = <<>>
    /\ tick' = 0
    /\ pc' = "find"
    /\ UNCHANGED << supported_entities, loads, text, post_outcome, posts,
                    mentions, idx, current_text, recognizer_results, raised,
                    ret, alive >>

\* the for loop is exhausted: return recognizer_results (and analyze returns)
MapReturn ==
    /\ pc = "map"
    /\ idx = Len(mentions)
    /\ ret' = [kind |-> "results", val |-> recognizer_results]
    /\ pc' = "returned"
    /\ UNCHANGED << supported_entities, loads, locals, raised, alive >>

\* one iteration of: while start < len(text)
FindLoop ==
    /\ pc = "find"
    /\ start < Len(searched)
    /\ LET f == PyFind(searched, word, start) IN
        IF f = -1
        THEN /\ start' = -1
             /\ pc' = "find_ret"
             /\ UNCHANGED positions
        ELSE /\ positions' =
                   IF Len(positions) < MaxPositions
                   THEN Append(positions, << f, SpanEnd(f, word) >>)
                   ELSE positions
             /\ start' = f + Len(word)
             /\ pc' = "find"
    /\ tick' = 1 - tick
    /\ UNCHANGED << supported_entities, loads, text, post_outcome, posts,
                    mentions, idx, current_text, recognizer_results, searched,
                    word, raised, ret, alive >>

\* return positions[0], then the rest of the for body; an empty list
\* raises IndexError, which no handler of this class catches
FindReturn ==
    /\ \/ pc = "find_ret"
       \/ pc = "find" /\ ~(start < Len(searched))
    /\ IF positions = <<>>
       THEN /\ raised' = "IndexError"
            /\ pc' = "raised"
            /\ UNCHANGED << idx, current_text, recognizer_results >>
       ELSE LET position == FirstPosition(positions) IN
            /\ current_text' = SliceFrom(current_text, position[2])
            /\ recognizer_results' =
                   AppendResult(recognizer_results,
                                RecognizerResult(mentions[idx + 1], position))
            /\ idx' = idx + 1
            /\ pc' = "map"
            /\ UNCHANGED raised
    /\ UNCHANGED << supported_entities, loads, text, post_outcome, posts,
                    mentions, searched, word, start, positions, tick, ret,
                    alive >>

\* the caller takes the list, or handles the exception, and goes on
Continue ==
    /\ pc \in {"returned", "raised"}
    /\ pc' = "idle"
    /\ text' = <<>>
    /\ post_outcome' = "none"
    /\ posts' = 0
    /\ mentions' = <<>>
    /\ idx' = 0
    /\ current_text' = <<>>
    /\ recognizer_results' = <<>>
    /\ searched' = <<>>
    /\ word' = <<>>
    /\ start' = 0
    /\ positions' = <<>>
    /\ tick' = 0
    /\ raised' = "none"
    /\ ret' = NoRet
    /\ UNCHANGED << supported_entities, loads, alive >>

\* SystemExit reaches the top of the stack: the interpreter exits
HostExit ==
    /\ pc = "raised"
    /\ raised = "SystemExit"
    /\ alive' = FALSE
    /\ pc' = "exited"
    /\ UNCHANGED << supported_entities, loads, locals, raised, ret >>

Next ==
    \/ Load
    \/ GetSupportedEntities
    \/ AnalyzeOk
    \/ AnalyzeFail
    \/ MapIter
    \/ MapReturn
    \/ FindLoop
    \/ FindReturn
    \/ Continue
    \/ HostExit

Spec == Init /\ [][Next]_vars

\* the interpreter keeps executing the running call
Running == MapIter \/ MapReturn \/ FindLoop \/ FindReturn
FairSpec == Init /\ [][Next]_vars /\ WF_vars(Running)

\* ------------------------------------------------------------ properties
\* the result list being built, and the mention each entry was built from
Spans(rs) == [k \in 1..Len(rs) |-> << rs[k].start, rs[k].end >>]
Occurs(t, w) == \E i \in 0..Len(t) : /\ i + Len(w) <= Len(t)
                                     /\ SubSeq(t, i + 1, i + Len(w)) = w
OccursAt(t, w, i) == /\ 0 <= i
                     /\ i + Len(w) <= Len(t)
                     /\ SubSeq(t, i + 1, i + Len(w)) = w
RequestFailed == post_outcome \in {"ConnectionError", "HTTPError"}
NonEmptyMentions == \A k \in 1..Len(mentions) : mentions[k].entity # <<>>

\* C1: every emitted RecognizerResult has 0 <= start < end <= len(text) and
\* text[start:end] is, character for character, the entity text of the
\* mention it was built from.
C1_RoundTrip ==
    \A k \in 1..Len(recognizer_results) :
        LET r == recognizer_results[k] IN
        /\ 0 <= r.start
        /\ r.start < r.end
        /\ r.end <= Len(text)
        /\ Slice(text, r.start, r.end) = mentions[k].entity

C1_Witness ==
    /\ pc = "returned"
    /\ Len(ret.val) = 2
    /\ ret.val[1].start > 0
    /\ ret.val[2].end - ret.val[2].start > 1

\* C2 (as claimed): each reported span is the first occurrence of the
\* mention's text at or after a cursor that starts at 0 and is set to the end
\* of each resolved span; for "A.B.A" and ["A", "A"] the spans are (0,1) and
\* (4,5).
C2_CursorSelection ==
    /\ \A k \in 1..Len(recognizer_results) :
          LET cursor == IF k = 1 THEN 0 ELSE recognizer_results[k - 1].end IN
          recognizer_results[k].start = PyFind(text, mentions[k].entity, cursor)
    /\ (pc = "returned" /\ text = DupText /\ mentions = DupMentions)
          => Spans(ret.val) = << <<0, 1>>, <<4, 5>> >>

\* C3 (as claimed): a mention whose text cannot be located is dropped and
\* the batch goes on; no error leaves map / analyze once the request succeeded.
C3_PartialFailure ==
    (post_outcome = "ok" /\ NonEmptyMentions) => raised = "none"

\* C4 (as claimed): a failed request is not retried, yields no result list,
\* surfaces as a catchable RemoteServiceError and never ends the host process.
C4_RemoteFailure ==
    RequestFailed =>
        /\ posts = 1
        /\ ret.kind # "results"
        /\ raised \in {"none", "RemoteServiceError"}
        /\ alive

\* C5 (as claimed): the contact scenario returns exactly two results, in
\* order, with spans (8,18) and (22,33).
C5_ContactScenario ==
    (pc = "returned" /\ text = ContactText /\ mentions = ContactMentions)
        => Spans(ret.val) = << <<8, 18>>, <<22, 33>> >>

\* C5 (amended): the contact scenario returns exactly two results, in order,
\* with spans (8,18) and (22,32), which are the positions of the two mention
\* texts in the literal string.
C5_ContactScenarioAmended ==
    (pc = "returned" /\ text = ContactText /\ mentions = ContactMentions)
        => /\ Spans(ret.val) = << <<8, 18>>, <<22, 32>> >>
           /\ ret.val[1].entity_type = "PERSON"
           /\ ret.val[2].entity_type = "EMAIL_ADDRESS"
           /\ Slice(ContactText, 8, 18) = JohnSmith
           /\ Slice(ContactText, 22, 32) = JohnMail

C5_Witness ==
    /\ pc = "returned"
    /\ text = ContactText
    /\ mentions = ContactMentions
    /\ Len(ret.val) = 2

\* C6: the output holds at most one result per mention, in mention order
\* (never sorted by span); the k-th result carries the type, score and
\* metadata of the k-th resolved mention and no analysis_explanation; a
\* returned list is exactly the image of the resolved mentions.
C6_OrderAndFields ==
    LET Found(m) == Occurs(text, m.entity)
        resolved == SelectSeq(mentions, Found)
    IN
    /\ Len(recognizer_results) <= Len(resolved)
    /\ \A k \in 1..Len(recognizer_results) :
          LET r == recognizer_results[k] IN
          /\ r.entity_type = resolved[k].entity_type
          /\ r.score = resolved[k].score
          /\ r.recognition_metadata = resolved[k].recognition_metadata
          /\ r.analysis_explanation = None
          /\ OccursAt(text, resolved[k].entity, r.start)
    /\ pc = "returned" =>
          /\ ret.val = recognizer_results
          /\ Len(ret.val) = Len(resolved)

C6_Witness ==
    /\ pc = "returned"
    /\ Len(ret.val) = 2
    /\ ret.val[1].start > ret.val[2].start
    /\ ret.val[1].entity_type # ret.val[2].entity_type

\* C7 (as claimed): resolving an empty mention text ends after finitely many
\* steps with an error, whatever the text.
C7_EmptyNeedleFails ==
    (pc = "find" /\ word = <<>>) ~> (raised = "IndexError")

\* the mentions are listed in left-to-right textual order: their texts have
\* non-overlapping occurrences at increasing positions matching list order
RECURSIVE PlacedFrom(_, _, _, _)
PlacedFrom(t, ms, k, cursor) ==
    IF k > Len(ms) THEN TRUE
    ELSE LET f == PyFind(t, ms[k].entity, cursor) IN
         /\ ms[k].entity # <<>>
         /\ f # -1
         /\ PlacedFrom(t, ms, k + 1, f + Len(ms[k].entity))
InTextualOrder(t, ms) == PlacedFrom(t, ms, 1, 0)

\* C8 (as claimed): when the mentions are listed in left-to-right textual
\* order, the start offsets of the emitted results are non-decreasing.
C8_Monotone ==
    InTextualOrder(text, mentions) =>
        \A k \in 2..Len(recognizer_results) :
            recognizer_results[k - 1].start <= recognizer_results[k].start

\* C9: supported_entities is empty before the first load(), is the fixed list
\* of 11 entity types after it, changes only at the first load() (later loads
\* and every analyze leave it alone), and get_supported_entities() returns it
\* unmodified.
C9_Loaded ==
    /\ loads = 0 => supported_entities = <<>>
    /\ loads > 0 =>
          /\ Len(supported_entities) = 11
          /\ supported_entities = LoadedEntityList
C9_Frame ==
    /\ supported_entities' # supported_entities => (loads = 0 /\ loads' = 1)
    /\ (ret'.kind = "entities" /\ ret' # ret) =>
          /\ ret'.val = supported_entities
          /\ supported_entities' = supported_entities
C9_LoadTimeState == [](C9_Loaded) /\ [][C9_Frame]_vars

C9_Witness ==
    /\ loads = 2
    /\ ret.kind = "entities"
    /\ ret.val = LoadedEntityList

\* C10: the span reported for a mention is the leftmost occurrence of its
\* text in the whole text, whatever precedes it in the list; the trimmed
\* current_text is never what is searched; equal texts get equal spans.
C10_OrderIndependent ==
    /\ \A k \in 1..Len(recognizer_results) :
          LET r == recognizer_results[k]
              w == mentions[k].entity
          IN /\ OccursAt(text, w, r.start)
             /\ \A j \in 0..(r.start - 1) : ~OccursAt(text, w, j)
             /\ r.end = r.start + Len(w)
    /\ \A j, k \in 1..Len(recognizer_results) :
          mentions[j].entity = mentions[k].entity
              => Spans(recognizer_results)[j] = Spans(recognizer_results)[k]
    /\ pc \in {"find", "find_ret"} => searched = text

C10_Witness ==
    /\ Len(recognizer_results) = 2
    /\ mentions[1].entity = mentions[2].entity
    /\ recognizer_results[1].start = recognizer_results[2].start
    /\ PyFind(text, mentions[2].entity, recognizer_results[1].end) # -1
    /\ current_text # text

====
